---------------------------- MODULE Spec2Model ----------------------------
(***************************************************************************)
(* A model of picross.py: the line enumerator get_possibilities, the two   *)
(* reducers filter_possibilities and deduce_facts, and the Picross engine  *)
(* (constructor, solve, solve_step, enrich_row, enrich_column).            *)
(*                                                                         *)
(* Python lists are sequences (1-based here, 0-based in the source).  A    *)
(* Python list repetition [x] * k with k <= 0 is the empty list, zip stops *)
(* at its shortest argument, and an index past the end of a list raises    *)
(* IndexError: the model keeps all three.                                  *)
(***************************************************************************)
EXTENDS Integers, Sequences, FiniteSets, TLC

VARIABLES
    row_constraints,        \* self.row_constraints
    column_constraints,     \* self.column_constraints
    board,                  \* self.board: a list of rows of cells
    row_possibilities,      \* self.row_possibilities: per row, a list of candidates
    column_possibilities,   \* self.column_possibilities
    pc,                     \* where the program is
    idx,                    \* the loop index i or j of the running for loop (1-based)
    driver,                 \* what the caller runs: solve(), or solve_step() again and again
    step_start,             \* history: the object as the running (or last) solve_step found it
    call                    \* a direct call of a module-level function: arguments and results

vars == <<row_constraints, column_constraints, board, row_possibilities,
          column_possibilities, pc, idx, driver, step_start, call>>

-----------------------------------------------------------------------------
(* Bounds of the model. *)

\* Puzzles have height + width <= MaxLines.
MaxLines == 4

\* The line enumerator is also run alone on lines of length 0..MaxLen with
\* constraints of at most MaxRuns runs, each of length 1..MaxRun.
MaxLen == 4
MaxRuns == 2
MaxRun == 3
\* Direct calls of filter_possibilities and deduce_facts: lines of up to
\* MaxCallLen cells, candidate lists of up to MaxCands arrangements.
MaxCallLen == 2
MaxCands == 3

-----------------------------------------------------------------------------
(* class State *)

WHITE == "."
BLACK == "#"
UNKNOWN == "?"

State == {WHITE, BLACK, UNKNOWN}

-----------------------------------------------------------------------------
(* Python list helpers *)

\* [x] * k
Rep(x, k) == IF k <= 0 THEN <<>> ELSE [i \in 1..k |-> x]

Min(a, b) == IF a <= b THEN a ELSE b

RECURSIVE Flatten(_)
\* the concatenation of a list of lists, in order
Flatten(ss) == IF ss = <<>> THEN <<>> ELSE Head(ss) \o Flatten(Tail(ss))

RECURSIVE MinLen(_)
\* the length of the shortest list of a non-empty list of lists (where zip stops)
MinLen(ss) ==
    IF Len(ss) = 1 THEN Len(ss[1])
    ELSE Min(Len(ss[1]), MinLen(Tail(ss)))

-----------------------------------------------------------------------------
(* get_possibilities *)

\* Arrangement without the separator before the last block.
ArrangementNoSeparator(l, n, last, length) ==
    l
    \o Rep(BLACK, last)
    \o Rep(WHITE, length - n - last)

\* One arrangement: the prefix l, a separator unless the last block starts the
\* line, the last block at offset n, and the padding to the line's length.
Arrangement(l, n, last, length) ==
    l
    \o Rep(WHITE, IF n # 0 THEN 1 ELSE 0)
    \o Rep(BLACK, last)
    \o Rep(WHITE, length - n - last)

RECURSIVE get_possibilities_short(_, _)
\* get_possibilities without the last offset: range(0, length - last).
get_possibilities_short(constraints, length) ==
    IF constraints = <<>>
    THEN << Rep(WHITE, length) >>
    ELSE LET init == SubSeq(constraints, 1, Len(constraints) - 1)
             last == constraints[Len(constraints)]
             at(n) == LET ls == get_possibilities_short(init, n - 1)
                      IN  [k \in 1..Len(ls) |-> Arrangement(ls[k], n, last, length)]
         IN  Flatten([m \in 1..(length - last) |-> at(m - 1)])

RECURSIVE get_possibilities_long(_, _)
\* get_possibilities with one offset too many: range(0, length - last + 2).
get_possibilities_long(constraints, length) ==
    IF constraints = <<>>
    THEN << Rep(WHITE, length) >>
    ELSE LET init == SubSeq(constraints, 1, Len(constraints) - 1)
             last == constraints[Len(constraints)]
             at(n) == LET ls == get_possibilities_long(init, n - 1)
                      IN  [k \in 1..Len(ls) |-> Arrangement(ls[k], n, last, length)]
         IN  Flatten([m \in 1..(length - last + 2) |-> at(m - 1)])

RECURSIVE get_possibilities(_, _)
get_possibilities(constraints, length) ==
    IF constraints = <<>>
    THEN << Rep(WHITE, length) >>
    ELSE LET init == SubSeq(constraints, 1, Len(constraints) - 1)
             last == constraints[Len(constraints)]
             \* for l in get_possibilities(init, n - 1)
             at(n) == LET ls == get_possibilities(init, n - 1)
                      IN  [k \in 1..Len(ls) |-> Arrangement(ls[k], n, last, length)]
         IN  \* for n in range(0, length - last + 1)
             Flatten([m \in 1..(length - last + 1) |-> at(m - 1)])

-----------------------------------------------------------------------------
(* filter_possibilities, deduce_facts *)

\* Compatible without the UNKNOWN wildcard: all(f == c ...).
CompatibleStrict(cs, fact) ==
    \A k \in 1..Min(Len(cs), Len(fact)) : fact[k] = cs[k]

\* Compatible with any for all: any(f == UNKNOWN or f == c ...).
CompatibleAny(cs, fact) ==
    \E k \in 1..Min(Len(cs), Len(fact)) : fact[k] = UNKNOWN \/ fact[k] = cs[k]

\* all(f == UNKNOWN or f == c for c, f in zip(cs, fact))
Compatible(cs, fact) ==
    \A k \in 1..Min(Len(cs), Len(fact)) : fact[k] = UNKNOWN \/ fact[k] = cs[k]

RECURSIVE RemoveIncompatible(_, _, _)
\* for cs in ps (at its k-th element): if not compatible: ps.remove(cs)
RemoveIncompatible(ps, k, fact) ==
    IF k > Len(ps) THEN ps
    ELSE IF \A m \in 1..Min(Len(ps[k]), Len(fact)) :
                fact[m] = UNKNOWN \/ fact[m] = ps[k][m]
         THEN RemoveIncompatible(ps, k + 1, fact)
         ELSE LET a == CHOOSE a \in 1..k :
                           ps[a] = ps[k] /\ \A b \in 1..(a - 1) : ps[b] # ps[k]
              IN  RemoveIncompatible(SubSeq(ps, 1, a - 1) \o SubSeq(ps, a + 1, Len(ps)),
                                     k + 1, fact)

\* filter_possibilities removing from the list it iterates over.
filter_possibilities_in_place(possibilities, fact) ==
    RemoveIncompatible(possibilities, 1, fact)

filter_possibilities(possibilities, fact) ==
    SelectSeq(possibilities, LAMBDA cs : Compatible(cs, fact))

\* Agreed without the agreement test: ps[0].
AgreedFirst(possibilities, k) == possibilities[1][k]

\* Agreed with the test inverted: ps[0] if len(set(ps)) != 1 else UNKNOWN.
AgreedInverted(possibilities, k) ==
    IF \A a \in 1..Len(possibilities) : possibilities[a][k] = possibilities[1][k]
    THEN UNKNOWN
    ELSE possibilities[1][k]

\* Agreed comparing the first candidate with the last only: ps[0] == ps[-1].
AgreedEnds(possibilities, k) ==
    IF possibilities[Len(possibilities)][k] = possibilities[1][k]
    THEN possibilities[1][k]
    ELSE UNKNOWN

\* ps[0] if len(set(ps)) == 1 else UNKNOWN, ps the k-th cells of all candidates
Agreed(possibilities, k) ==
    IF \A a \in 1..Len(possibilities) : possibilities[a][k] = possibilities[1][k]
    THEN possibilities[1][k]
    ELSE UNKNOWN

deduce_facts(possibilities) ==
    IF possibilities = <<>>
    THEN <<>>
    ELSE [k \in 1..MinLen(possibilities) |-> Agreed(possibilities, k)]

-----------------------------------------------------------------------------
(* class Picross *)

width == Len(column_constraints)
height == Len(row_constraints)

\* Picross.is_solved
is_solved ==
    \A i \in 1..Len(board) : \A j \in 1..Len(board[i]) : board[i][j] # UNKNOWN

\* Picross.row
row(i) == board[i]

\* Picross.column
column(j) == [i \in 1..height |-> board[i][j]]

\* The board after enrich_row(i, facts): the writes it performs.  A fact past
\* the row's end is written nowhere (see EnrichRowRaises).
EnrichRowBoard(i, facts) ==
    [board EXCEPT ![i] =
        [j \in 1..Len(board[i]) |->
            IF j <= Len(facts) /\ facts[j] # UNKNOWN THEN facts[j] ELSE board[i][j]]]

\* enrich_row raises IndexError at self.board[i][j] = cell when a known fact
\* lies past the end of the row.
EnrichRowRaises(i, facts) ==
    \E j \in (Len(board[i]) + 1)..Len(facts) : facts[j] # UNKNOWN

\* EnrichColumnBoard without the test column[i] != UNKNOWN.
EnrichColumnBoardAll(j, facts) ==
    [i \in 1..height |->
        IF i <= Len(facts)
        THEN [board[i] EXCEPT ![j] = facts[i]]
        ELSE board[i]]

\* The board after enrich_column(j, facts): rows 1..min(height, len(facts)) are
\* visited before column[i] can raise.
EnrichColumnBoard(j, facts) ==
    [i \in 1..height |->
        IF i <= Len(facts) /\ facts[i] # UNKNOWN
        THEN [board[i] EXCEPT ![j] = facts[i]]
        ELSE board[i]]

\* enrich_column raises IndexError at column[i] when the facts are shorter
\* than the height.
EnrichColumnRaises(facts) == Len(facts) < height

\* The four for loops of solve_step, in order.
Phases == <<"enrich_row", "enrich_column", "filter_row", "filter_column">>

\* the number of iterations of the k-th loop
PhaseLen(k) == IF k \in {1, 3} THEN height ELSE width

RECURSIVE EnterSkippingLast(_)
\* Enter for a solve_step without its fourth loop: columns are never filtered.
EnterSkippingLast(k) ==
    IF k > 3 THEN <<"top", 0>>
    ELSE IF PhaseLen(k) > 0 THEN <<Phases[k], 1>>
    ELSE EnterSkippingLast(k + 1)

RECURSIVE Enter(_)
\* The position at the start of the k-th loop: its first iteration, or, the
\* loop being empty, the start of the next; after the fourth, solve_step returns.
Enter(k) ==
    IF k > 4 THEN <<"top", 0>>
    ELSE IF PhaseLen(k) > 0 THEN <<Phases[k], 1>>
    ELSE Enter(k + 1)

\* After with each filter loop moved up behind its consolidation loop: rows
\* consolidated, rows filtered, columns consolidated, columns filtered.
AfterInterleaved(k, i) ==
    IF i < PhaseLen(k) THEN <<Phases[k], i + 1>>
    ELSE LET later == CASE k = 1 -> <<3, 2, 4>>
                        [] k = 3 -> <<2, 4>>
                        [] k = 2 -> <<4>>
                        [] OTHER -> <<>>
             live == SelectSeq(later, LAMBDA q : PhaseLen(q) > 0)
         IN  IF live = <<>> THEN <<"top", 0>> ELSE <<Phases[live[1]], 1>>

\* The position after iteration i of the k-th loop.
After(k, i) == IF i < PhaseLen(k) THEN <<Phases[k], i + 1>> ELSE Enter(k + 1)

\* Construct with the two line lengths exchanged: rows enumerated over
\* self.height cells, columns over self.width.
ConstructTransposed ==
    /\ pc = "new"
    /\ board' = [i \in 1..height |-> [j \in 1..width |-> UNKNOWN]]
    /\ row_possibilities' =
           [i \in 1..height |-> get_possibilities(row_constraints[i], height)]
    /\ column_possibilities' =
           [j \in 1..width |-> get_possibilities(column_constraints[j], width)]
    /\ pc' = "top"
    /\ UNCHANGED <<row_constraints, column_constraints, idx, driver,
                   step_start, call>>

\* Picross.__init__
Construct ==
    /\ pc = "new"
    /\ board' = [i \in 1..height |-> [j \in 1..width |-> UNKNOWN]]
    /\ row_possibilities' =
           [i \in 1..height |-> get_possibilities(row_constraints[i], width)]
    /\ column_possibilities' =
           [j \in 1..width |-> get_possibilities(column_constraints[j], height)]
    /\ pc' = "top"
    /\ UNCHANGED <<row_constraints, column_constraints, idx, driver,
                   step_start, call>>

\* Picross.solve: the while loop finds the board solved and solve returns.
SolveReturn ==
    /\ pc = "top"
    /\ driver = "solve"
    /\ is_solved
    /\ pc' = "done"
    /\ UNCHANGED <<row_constraints, column_constraints, board, row_possibilities,
                   column_possibilities, idx, driver,
                   step_start, call>>

\* The solve_step that has just returned removed no candidate: the candidate
\* lists are those it started with.
NoneRemoved ==
    /\ step_start.began
    /\ row_possibilities = step_start.rows
    /\ column_possibilities = step_start.columns

\* solve_step is entered: from the loop of solve while the board is not solved,
\* or called by the caller itself.
StepBegin ==
    /\ pc = "top"
    /\ (driver = "solve") => ~is_solved
    /\ pc' = Enter(1)[1]
    /\ idx' = Enter(1)[2]
    /\ step_start' = [began |-> TRUE,
                      stalled |-> NoneRemoved,
                      board |-> board,
                      rows |-> row_possibilities,
                      columns |-> column_possibilities]
    /\ UNCHANGED <<row_constraints, column_constraints, board, row_possibilities,
                   column_possibilities, driver,
                   call>>

\* self.enrich_row(i, deduce_facts(row))
EnrichRow ==
    /\ pc = "enrich_row"
    /\ LET facts == deduce_facts(row_possibilities[idx])
       IN  /\ board' = EnrichRowBoard(idx, facts)
           /\ IF EnrichRowRaises(idx, facts)
              THEN pc' = "crashed" /\ idx' = idx
              ELSE pc' = After(1, idx)[1] /\ idx' = After(1, idx)[2]
    /\ UNCHANGED <<row_constraints, column_constraints, row_possibilities,
                   column_possibilities, driver,
                   step_start, call>>

\* EnrichColumn filtering the column as soon as its facts are written.
EnrichColumnFiltering ==
    /\ pc = "enrich_column"
    /\ LET facts == deduce_facts(column_possibilities[idx])
           written == EnrichColumnBoard(idx, facts)
       IN  /\ board' = written
           /\ IF EnrichColumnRaises(facts)
              THEN /\ pc' = "crashed" /\ idx' = idx
                   /\ column_possibilities' = column_possibilities
              ELSE /\ pc' = After(2, idx)[1] /\ idx' = After(2, idx)[2]
                   /\ column_possibilities' =
                          [column_possibilities EXCEPT
                              ![idx] = filter_possibilities(
                                           column_possibilities[idx],
                                           [i \in 1..height |-> written[i][idx]])]
    /\ UNCHANGED <<row_constraints, column_constraints, row_possibilities,
                   driver, step_start, call>>

\* self.enrich_column(j, deduce_facts(column))
EnrichColumn ==
    /\ pc = "enrich_column"
    /\ LET facts == deduce_facts(column_possibilities[idx])
       IN  /\ board' = EnrichColumnBoard(idx, facts)
           /\ IF EnrichColumnRaises(facts)
              THEN pc' = "crashed" /\ idx' = idx
              ELSE pc' = After(2, idx)[1] /\ idx' = After(2, idx)[2]
    /\ UNCHANGED <<row_constraints, column_constraints, row_possibilities,
                   column_possibilities, driver,
                   step_start, call>>

\* self.row_possibilities[i] = filter_possibilities(row, self.row(i))
FilterRow ==
    /\ pc = "filter_row"
    /\ row_possibilities' =
           [row_possibilities EXCEPT
               ![idx] = filter_possibilities(row_possibilities[idx], row(idx))]
    /\ pc' = After(3, idx)[1]
    /\ idx' = After(3, idx)[2]
    /\ UNCHANGED <<row_constraints, column_constraints, board,
                   column_possibilities, driver,
                   step_start, call>>

\* self.column_possibilities[j] = filter_possibilities(column, self.column(j))
FilterColumn ==
    /\ pc = "filter_column"
    /\ column_possibilities' =
           [column_possibilities EXCEPT
               ![idx] = filter_possibilities(column_possibilities[idx], column(idx))]
    /\ pc' = After(4, idx)[1]
    /\ idx' = After(4, idx)[2]
    /\ UNCHANGED <<row_constraints, column_constraints, board,
                   row_possibilities, driver,
                   step_start, call>>

Next ==
    \/ Construct
    \/ SolveReturn
    \/ StepBegin
    \/ EnrichRow
    \/ EnrichColumn
    \/ FilterRow
    \/ FilterColumn

-----------------------------------------------------------------------------
(* The puzzles the engine is run on *)

\* the FILLED/EMPTY lines of length n
Lines(n) == [1..n -> {WHITE, BLACK}]

RECURSIVE RunsFrom(_, _, _)
\* The lengths of the maximal BLACK runs of line l from cell k on, in order,
\* given a run of length cur is open just before cell k.
RunsFrom(l, k, cur) ==
    IF k > Len(l)
    THEN IF cur > 0 THEN <<cur>> ELSE <<>>
    ELSE IF l[k] = BLACK
         THEN RunsFrom(l, k + 1, cur + 1)
         ELSE (IF cur > 0 THEN <<cur>> ELSE <<>>) \o RunsFrom(l, k + 1, 0)

\* the run lengths of a line: the constraint it satisfies
Runs(l) == RunsFrom(l, 1, 0)

\* The constraints tried on a line of length n: every constraint of positive
\* runs that fits a line one cell longer, so both those that fit the line and
\* those that are one cell too long for it.
Constraints(n) == {Runs(l) : l \in Lines(n + 1)}

Dims == {d \in (0..MaxLines) \X (0..MaxLines) : d[1] + d[2] <= MaxLines}

\* no solve_step has been entered yet
NoStep == [began |-> FALSE, stalled |-> FALSE,
           board |-> <<>>, rows |-> <<>>, columns |-> <<>>]

\* no module-level function is called directly
NoCall == [fn |-> "none", possibilities |-> <<>>, fact |-> <<>>, results |-> <<>>]

\* Before Picross(rows, columns): the arguments are chosen, and what the caller
\* will run on the object.
Start ==
    /\ board = <<>>
    /\ row_possibilities = <<>>
    /\ column_possibilities = <<>>
    /\ pc = "new"
    /\ idx = 0
    /\ driver \in {"solve", "solve_step"}
    /\ step_start = NoStep
    /\ call = NoCall

Init ==
    /\ \E d \in Dims :
          /\ row_constraints \in [1..d[1] -> Constraints(d[2])]
          /\ column_constraints \in [1..d[2] -> Constraints(d[1])]
    /\ Start

Spec == Init /\ [][Next]_vars

\* The constraints that fit a line of length n.
FitConstraints(n) == {Runs(l) : l \in Lines(n)}

\* The puzzles all of whose constraints fit their lines.
InitFit ==
    /\ \E d \in Dims :
          /\ row_constraints \in [1..d[1] -> FitConstraints(d[2])]
          /\ column_constraints \in [1..d[2] -> FitConstraints(d[1])]
    /\ Start

\* The program keeps running while it can: it is single-threaded and nothing
\* suspends it.
LiveSpec == InitFit /\ [][Next]_vars /\ WF_vars(Next)

\* The constraints of at most one run whose length may be -1 or 0.
LooseConstraints == {<<>>} \cup {<<r>> : r \in -1..1}

\* Puzzles with non-positive run lengths among their constraints.
InitLoose ==
    /\ \E d \in Dims :
          /\ row_constraints \in [1..d[1] -> LooseConstraints]
          /\ column_constraints \in [1..d[2] -> LooseConstraints]
    /\ Start

InputSpec == InitLoose /\ [][Next]_vars

\* The constraints of at most MaxRuns runs of length 1..MaxRun.
RunSeqs == UNION {[1..k -> 1..MaxRun] : k \in 0..MaxRuns}

\* One-row puzzles: get_possibilities is run on any constraint of RunSeqs and
\* any length 0..MaxLen (the row), and on height 1 (the columns).
InitEnum ==
    /\ \E n \in 0..MaxLen :
          /\ row_constraints \in [1..1 -> RunSeqs]
          /\ column_constraints \in [1..n -> {<<>>, <<1>>}]
    /\ Start

EnumSpec == InitEnum /\ [][Next]_vars

-----------------------------------------------------------------------------
(* filter_possibilities and deduce_facts called directly *)

\* the candidate lists over lines of n cells
CandidateLists(n) == UNION {[1..k -> Lines(n)] : k \in 0..MaxCands}

\* the fact sequences over lines of n cells
Facts(n) == [1..n -> State]

\* No Picross object: the caller holds a candidate list and, for
\* filter_possibilities, a fact sequence of the same line length.
InitCall ==
    /\ row_constraints = <<>>
    /\ column_constraints = <<>>
    /\ board = <<>>
    /\ row_possibilities = <<>>
    /\ column_possibilities = <<>>
    /\ pc = "call"
    /\ idx = 0
    /\ driver = "call"
    /\ step_start = NoStep
    /\ \E n \in 0..MaxCallLen : \E S \in CandidateLists(n) :
          \/ \E f \in Facts(n) :
                call = [fn |-> "filter_possibilities", possibilities |-> S,
                        fact |-> f, results |-> <<>>]
          \/ call = [fn |-> "deduce_facts", possibilities |-> S,
                     fact |-> <<>>, results |-> <<>>]

\* r = filter_possibilities(S, f), and then r = filter_possibilities(r, f)
FilterCall ==
    /\ pc = "call"
    /\ call.fn = "filter_possibilities"
    /\ Len(call.results) < 2
    /\ call' = [call EXCEPT !.results =
                    Append(@, filter_possibilities(
                                  IF @ = <<>> THEN call.possibilities ELSE @[Len(@)],
                                  call.fact))]
    /\ UNCHANGED <<row_constraints, column_constraints, board, row_possibilities,
                   column_possibilities, pc, idx, driver, step_start>>

\* r = deduce_facts(S)
DeduceCall ==
    /\ pc = "call"
    /\ call.fn = "deduce_facts"
    /\ call.results = <<>>
    /\ call' = [call EXCEPT !.results = << deduce_facts(call.possibilities) >>]
    /\ UNCHANGED <<row_constraints, column_constraints, board, row_possibilities,
                   column_possibilities, pc, idx, driver, step_start>>

CallNext ==
    \/ FilterCall
    \/ DeduceCall

CallSpec == InitCall /\ [][CallNext]_vars

-----------------------------------------------------------------------------
(* Vocabulary of the properties *)

Range(s) == {s[k] : k \in 1..Len(s)}

RECURSIVE Sum(_)
Sum(c) == IF c = <<>> THEN 0 ELSE Head(c) + Sum(Tail(c))

\* The cells a non-empty constraint needs: its runs and the separators between.
Need(c) == Sum(c) + Len(c) - 1

\* The constraint c cannot be laid out in a line of n cells.
Unfit(c, n) == c # <<>> /\ Need(c) > n

HasUnfitLine ==
    \/ \E i \in 1..height : Unfit(row_constraints[i], width)
    \/ \E j \in 1..width : Unfit(column_constraints[j], height)

HasNonPositiveRun ==
    \/ \E i \in 1..height : \E r \in Range(row_constraints[i]) : r <= 0
    \/ \E j \in 1..width : \E r \in Range(column_constraints[j]) : r <= 0

\* column j of a grid g of the puzzle's height
GridColumn(g, j) == [i \in 1..height |-> g[i][j]]

\* g is a height x width grid of FILLED/EMPTY cells whose every row and column
\* has exactly the runs of its constraint.
IsSolution(g) ==
    /\ Len(g) = height
    /\ \A i \in 1..height :
          /\ Len(g[i]) = width
          /\ Range(g[i]) \subseteq {WHITE, BLACK}
          /\ Runs(g[i]) = row_constraints[i]
    /\ \A j \in 1..width : Runs(GridColumn(g, j)) = column_constraints[j]

\* the FILLED/EMPTY lines of length n whose runs are the constraint c
SatLines(c, n) == {l \in Lines(n) : Runs(l) = c}

RECURSIVE RowGrids(_)
\* the grids of k rows, each row satisfying its constraint
RowGrids(k) ==
    IF k = 0 THEN {<<>>}
    ELSE {Append(g, l) : g \in RowGrids(k - 1),
                         l \in SatLines(row_constraints[k], width)}

\* the solution grids of the puzzle
Solutions == {g \in RowGrids(height) : IsSolution(g)}

\* the number of non-UNKNOWN cells of a board b
Known(b) ==
    Sum([i \in 1..Len(b) |-> Cardinality({j \in 1..Len(b[i]) : b[i][j] # UNKNOWN})])

\* the list a holds no more candidates than b and only candidates of b
Narrowed(a, b) == Len(a) <= Len(b) /\ Range(a) \subseteq Range(b)

\* some row's or column's candidate set is smaller than the constructor made it
SomeRowNarrowed ==
    \E i \in 1..height :
        Len(row_possibilities[i]) < Len(get_possibilities(row_constraints[i], width))

SomeColumnNarrowed ==
    \E j \in 1..width :
        Len(column_possibilities[j])
            < Len(get_possibilities(column_constraints[j], height))

\* solve() has returned, or an exception has ended the run
Stopped == pc \in {"done", "crashed"}

-----------------------------------------------------------------------------
(* C1 *)

\* C1: for a puzzle that has a solution, when solve() has returned the board
\* has no UNKNOWN cell and every row and column of it has the runs of its
\* constraint: the board is a solution of the puzzle.
C1_SolveReturnsSolution ==
    (pc = "done" /\ Solutions # {}) => IsSolution(board)

\* solve() has returned on a solvable 2 x 2 puzzle with cells of both colours
C1_Witness ==
    /\ pc = "done"
    /\ Solutions # {}
    /\ height = 2 /\ width = 2
    /\ \E i \in 1..2 : \E j \in 1..2 : board[i][j] = BLACK
    /\ \E i \in 1..2 : \E j \in 1..2 : board[i][j] = WHITE

-----------------------------------------------------------------------------
(* C2 *)

\* C2: no step of the program, the single enrich_row and enrich_column calls
\* inside a solve_step included, changes a board cell that is FILLED or EMPTY.
C2_CellNeverRewritten ==
    [][\A i \in 1..Len(board) : \A j \in 1..Len(board[i]) :
          board[i][j] # UNKNOWN => board'[i][j] = board[i][j]]_vars

-----------------------------------------------------------------------------
(* C3 *)

\* C3: once the object is constructed, and after any number of solve_step
\* calls, every row of every solution is among that row's candidates and every
\* column of every solution among that column's.
C3_SolutionLinesKept ==
    pc # "new" =>
        \A g \in Solutions :
            /\ \A i \in 1..height : g[i] \in Range(row_possibilities[i])
            /\ \A j \in 1..width :
                  GridColumn(g, j) \in Range(column_possibilities[j])

\* between two solve_step calls on a solvable puzzle of two rows or more, a
\* row's candidates have been filtered down
C3_Witness ==
    /\ pc = "top"
    /\ Solutions # {}
    /\ height >= 2
    /\ SomeRowNarrowed

-----------------------------------------------------------------------------
(* C4 *)

\* C4: once the object is constructed, no step of the program adds a candidate
\* to a row's or column's list (the new list holds no more candidates, and only
\* candidates of the old one), and none lowers the number of non-UNKNOWN cells.
C4_Monotone ==
    [][pc # "new" =>
          /\ \A i \in 1..height :
                Narrowed(row_possibilities'[i], row_possibilities[i])
          /\ \A j \in 1..width :
                Narrowed(column_possibilities'[j], column_possibilities[j])
          /\ Known(board') >= Known(board)]_vars

\* between two solve_step calls, a column's candidates have been narrowed and
\* the board is partly known
C4_Witness ==
    /\ pc = "top"
    /\ SomeColumnNarrowed
    /\ Known(board) > 0
    /\ ~is_solved

-----------------------------------------------------------------------------
(* C5 *)

\* every constraint fits its line, and filtering has emptied a candidate set
EmptiedByFiltering ==
    /\ pc # "new"
    /\ ~HasUnfitLine
    /\ \/ \E i \in 1..height : row_possibilities[i] = <<>>
       \/ \E j \in 1..width : column_possibilities[j] = <<>>

\* deduce_facts is about to be called on an empty candidate set
ConsolidatingEmpty ==
    \/ pc = "enrich_row" /\ row_possibilities[idx] = <<>>
    \/ pc = "enrich_column" /\ column_possibilities[idx] = <<>>

\* C5: once filtering has emptied a candidate set, the run neither returns a
\* board from solve() as solved, nor ends in an exception, nor goes on to
\* consolidate the empty set.
C5_ContradictionDetected ==
    EmptiedByFiltering => ~Stopped /\ ~ConsolidatingEmpty

-----------------------------------------------------------------------------
(* C6 *)

\* C6: on a puzzle (of at least one row and one column) with a constraint too
\* long for its line, the run never ends in an exception, never returns a board
\* from solve() as solved, and no candidate has another length than its line.
C6_UnfitLineFails ==
    (HasUnfitLine /\ height > 0 /\ width > 0) =>
        /\ ~Stopped
        /\ pc # "new" =>
              /\ \A i \in 1..height : \A c \in Range(row_possibilities[i]) :
                    Len(c) = width
              /\ \A j \in 1..width : \A c \in Range(column_possibilities[j]) :
                    Len(c) = height

-----------------------------------------------------------------------------
(* C7 *)

\* rows [[1],[1]], columns [[1],[1]]
Ambiguous2x2 ==
    /\ row_constraints = << <<1>>, <<1>> >>
    /\ column_constraints = << <<1>>, <<1>> >>

\* C7: solve() on rows [[1],[1]], columns [[1],[1]] eventually stops, by
\* returning or by raising.
C7_SolveStops == (Ambiguous2x2 /\ driver = "solve") ~> Stopped

-----------------------------------------------------------------------------
(* C8 *)

\* C8: a puzzle with a non-positive run length, or with a constraint too long
\* for its line, never gets past the constructor.
C8_MalformedRejected ==
    (HasNonPositiveRun \/ HasUnfitLine) => pc = "new"

-----------------------------------------------------------------------------
(* C9 *)

\* rows [[3]], columns [[1],[1],[1]]
Puzzle1x3 ==
    /\ row_constraints = << <<3>> >>
    /\ column_constraints = << <<1>>, <<1>>, <<1>> >>

\* C9: solve() on rows [[3]], columns [[1],[1],[1]] eventually returns, with
\* the three cells of the board FILLED.
C9_Solves1x3 ==
    (Puzzle1x3 /\ driver = "solve")
        ~> (pc = "done" /\ board = << <<BLACK, BLACK, BLACK>> >>)

\* solve() has returned on that puzzle
C9_Witness == Puzzle1x3 /\ pc = "done" /\ Known(board) = 3

-----------------------------------------------------------------------------
(* C10 *)

\* C10: every arrangement get_possibilities returns for a constraint of
\* positive runs has the length of the line, holds only FILLED and EMPTY cells,
\* and its maximal FILLED runs are the constraint's, in order.
C10_ArrangementsWellFormed ==
    pc # "new" =>
        /\ \A i \in 1..height : \A c \in Range(row_possibilities[i]) :
              /\ Len(c) = width
              /\ Range(c) \subseteq {WHITE, BLACK}
              /\ Runs(c) = row_constraints[i]
        /\ \A j \in 1..width : \A c \in Range(column_possibilities[j]) :
              /\ Len(c) = height
              /\ Range(c) \subseteq {WHITE, BLACK}
              /\ Runs(c) = column_constraints[j]

\* just constructed: the row has two runs and at least three arrangements
C10_Witness ==
    /\ pc = "top"
    /\ Known(board) = 0
    /\ Len(row_constraints[1]) = 2
    /\ Len(row_possibilities[1]) >= 3

-----------------------------------------------------------------------------
(* C11 *)

\* the object is constructed and no solve_step has been entered
Constructed == pc = "top" /\ ~step_start.began

\* C11: the candidate list the constructor gets from get_possibilities(c, n),
\* c of positive runs, holds every line of n WHITE and BLACK cells whose runs of
\* BLACK are c in order; for c = [] it is the one all-WHITE line, once.
C11_EnumerationComplete ==
    Constructed =>
        /\ \A i \in 1..height :
              /\ SatLines(row_constraints[i], width)
                     \subseteq Range(row_possibilities[i])
              /\ row_constraints[i] = <<>> =>
                     row_possibilities[i] = << [k \in 1..width |-> WHITE] >>
        /\ \A j \in 1..width :
              /\ SatLines(column_constraints[j], height)
                     \subseteq Range(column_possibilities[j])
              /\ column_constraints[j] = <<>> =>
                     column_possibilities[j] = << [k \in 1..height |-> WHITE] >>

\* a constraint of two runs with three or more placements, all enumerated
C11_Witness ==
    /\ Constructed
    /\ height = 1
    /\ Len(row_constraints[1]) = 2
    /\ Cardinality(SatLines(row_constraints[1], width)) >= 3
    /\ Cardinality(Range(row_possibilities[1])) >= 3

-----------------------------------------------------------------------------
(* C12 *)

\* C12: for a non-empty constraint c of positive runs, the candidate list the
\* constructor gets from get_possibilities(c, n) is empty exactly when
\* sum(c) + len(c) - 1 > n; the constructor returns in either case.
C12_EmptyIffUnfit ==
    Constructed =>
        /\ \A i \in 1..height :
              row_constraints[i] # <<>> =>
                  (row_possibilities[i] = <<>>
                      <=> Sum(row_constraints[i]) + Len(row_constraints[i]) - 1 > width)
        /\ \A j \in 1..width :
              column_constraints[j] # <<>> =>
                  (column_possibilities[j] = <<>>
                      <=> Sum(column_constraints[j]) + Len(column_constraints[j]) - 1
                              > height)

\* a constraint of two runs one cell too long for its line: no candidate
C12_Witness ==
    /\ Constructed
    /\ height = 1
    /\ Len(row_constraints[1]) = 2
    /\ Need(row_constraints[1]) = width + 1
    /\ row_possibilities[1] = <<>>

-----------------------------------------------------------------------------
(* C13 *)

\* the candidate c has, at every cell, the fact's state or an UNKNOWN fact
Agrees(c, f) == \A k \in 1..Len(f) : f[k] = UNKNOWN \/ f[k] = c[k]

\* C13: a call r = filter_possibilities(S, f), S and f of one line length,
\* returns exactly the candidates of S that agree with f on every cell where f
\* is not UNKNOWN, each as often as S holds it, and leaves S as it was.
C13_FilterExact ==
    [][(call.fn = "filter_possibilities" /\ call.results = <<>>) =>
          LET S == call.possibilities
              f == call.fact
              r == call'.results[1]
          IN  /\ Range(r) = {c \in Range(S) : Agrees(c, f)}
              /\ Len(r) = Cardinality({a \in 1..Len(S) : Agrees(S[a], f)})
              /\ call'.possibilities = S]_vars

\* a call that kept a candidate and dropped another, on a fact sequence with a
\* known and an UNKNOWN cell
C13_Witness ==
    /\ call.fn = "filter_possibilities"
    /\ Len(call.results) = 1
    /\ call.results[1] # <<>>
    /\ Len(call.results[1]) < Len(call.possibilities)
    /\ \E k \in 1..Len(call.fact) : call.fact[k] = UNKNOWN
    /\ \E k \in 1..Len(call.fact) : call.fact[k] # UNKNOWN

-----------------------------------------------------------------------------
(* C14 *)

\* C14: filter_possibilities(filter_possibilities(S, f), f) is
\* filter_possibilities(S, f).
C14_FilterIdempotent ==
    (call.fn = "filter_possibilities" /\ Len(call.results) = 2) =>
        call.results[2] = call.results[1]

\* the second call has returned, on the result of a first call that dropped
\* one of three candidates
C14_Witness ==
    /\ call.fn = "filter_possibilities"
    /\ Len(call.results) = 2
    /\ Len(call.possibilities) = 3
    /\ Len(call.results[1]) = 2

-----------------------------------------------------------------------------
(* C15 *)

\* C15: r = deduce_facts(S), S a non-empty list of candidates of one line
\* length, has that length; r[k] is the state all candidates have at k when
\* they have one, and UNKNOWN otherwise; for S = [c], r is c.
C15_DeduceExact ==
    (call.fn = "deduce_facts" /\ call.results # <<>> /\ call.possibilities # <<>>) =>
        LET S == call.possibilities
            r == call.results[1]
            at(k) == {S[a][k] : a \in 1..Len(S)}
        IN  /\ Len(r) = Len(S[1])
            /\ \A k \in 1..Len(r) :
                  IF Cardinality(at(k)) = 1 THEN r[k] \in at(k) ELSE r[k] = UNKNOWN
            /\ Len(S) = 1 => r = S[1]

\* three candidates that agree on one cell and not on another
C15_Witness ==
    /\ call.fn = "deduce_facts"
    /\ call.results # <<>>
    /\ Len(call.possibilities) = 3
    /\ \E k \in 1..Len(call.results[1]) : call.results[1][k] = UNKNOWN
    /\ \E k \in 1..Len(call.results[1]) : call.results[1][k] = BLACK

-----------------------------------------------------------------------------
(* C16 *)

\* a solve_step has returned, and no other is running
StepCompleted == pc \in {"top", "done"} /\ step_start.began

\* the line has no UNKNOWN cell
Determined(line) == \A k \in 1..Len(line) : line[k] # UNKNOWN

\* C16: after a completed solve_step (on a puzzle of at least one row and one
\* column), every row and every column of the board without an UNKNOWN cell has
\* exactly one candidate left, and that candidate is the board's line.
C16_DeterminedLineSingleton ==
    (StepCompleted /\ height > 0 /\ width > 0) =>
        /\ \A i \in 1..height :
              Determined(row(i)) => row_possibilities[i] = << row(i) >>
        /\ \A j \in 1..width :
              Determined(column(j)) => column_possibilities[j] = << column(j) >>

-----------------------------------------------------------------------------
(* C17 *)

Enriching == pc \in {"enrich_row", "enrich_column"}

Filtering == pc \in {"filter_row", "filter_column"}

\* C17: inside a solve_step, while rows and columns are consolidated the
\* candidate lists are those the step started with and none is changed; the
\* first filter comes after the last consolidation (of the last column, or of
\* the last row of a board without columns); and from the first filter on the
\* board is not written again, so every filter of the step reads one board.
C17_EnrichBeforeFilter ==
    [][/\ Enriching =>
             /\ row_possibilities = step_start.rows
             /\ column_possibilities = step_start.columns
             /\ row_possibilities' = row_possibilities
             /\ column_possibilities' = column_possibilities
       /\ (Enriching /\ Filtering') =>
             \/ pc = "enrich_column" /\ idx = width
             \/ pc = "enrich_row" /\ idx = height /\ width = 0
       /\ Filtering =>
             /\ board' = board
             /\ ~Enriching']_vars

\* the columns are being filtered after a row was: a candidate is gone from a
\* row, the board the row filter read is still there, not solved
C17_Witness ==
    /\ pc = "filter_column"
    /\ \E i \in 1..height : Len(row_possibilities[i]) < Len(step_start.rows[i])
    /\ Known(board) > 0
    /\ ~is_solved

-----------------------------------------------------------------------------
(* C18 *)

\* C18: Picross(rows, columns) leaves a board of len(rows) rows of len(columns)
\* cells, all UNKNOWN, row_possibilities[i] = get_possibilities(rows[i],
\* len(columns)) for every row and column_possibilities[j] =
\* get_possibilities(columns[j], len(rows)) for every column.
C18_ConstructedState ==
    [][pc = "new" =>
          LET rows == row_constraints
              columns == column_constraints
          IN  /\ Len(board') = Len(rows)
              /\ \A i \in 1..Len(rows) :
                    /\ Len(board'[i]) = Len(columns)
                    /\ \A j \in 1..Len(columns) : board'[i][j] = UNKNOWN
              /\ Len(row_possibilities') = Len(rows)
              /\ \A i \in 1..Len(rows) :
                    row_possibilities'[i] = get_possibilities(rows[i], Len(columns))
              /\ Len(column_possibilities') = Len(columns)
              /\ \A j \in 1..Len(columns) :
                    column_possibilities'[j] =
                        get_possibilities(columns[j], Len(rows))]_vars

\* a constructed board of one row and three columns, the row with two or more
\* candidates of three cells
C18_Witness ==
    /\ Constructed
    /\ Len(board) = 1
    /\ Len(board[1]) = 3
    /\ Len(column_possibilities) = 3
    /\ Len(row_possibilities[1]) >= 2
    /\ \A a \in 1..Len(row_possibilities[1]) : Len(row_possibilities[1][a]) = 3

-----------------------------------------------------------------------------
(* C19 *)

\* C19: when a solve_step has removed no candidate from any list, the next
\* solve_step (step_start.stalled marks it) raises nothing and returns with the
\* board and every candidate list as it found them, and so does every one after
\* it; under solve(), where that board has an UNKNOWN cell, solve never returns.
C19_StalledIsFixpoint ==
    step_start.stalled =>
        /\ pc # "crashed"
        /\ pc = "top" =>
              /\ board = step_start.board
              /\ row_possibilities = step_start.rows
              /\ column_possibilities = step_start.columns
        /\ (driver = "solve" /\ Known(step_start.board) < height * width) =>
              pc # "done"

\* solve() is back at its loop test after a second solve_step that changed
\* nothing, the board not solved
C19_Witness ==
    /\ pc = "top"
    /\ driver = "solve"
    /\ step_start.stalled
    /\ Known(board) < height * width
    /\ board = step_start.board

-----------------------------------------------------------------------------
(* C20 *)

\* C20: after every completed solve_step, every candidate left in
\* row_possibilities[i] has the board's state at every cell of row i that is
\* not UNKNOWN, and every candidate left in column_possibilities[j] likewise
\* for column j.
C20_CandidatesAgreeWithBoard ==
    StepCompleted =>
        /\ \A i \in 1..height : \A a \in 1..Len(row_possibilities[i]) :
              \A j \in 1..width :
                  board[i][j] # UNKNOWN => row_possibilities[i][a][j] = board[i][j]
        /\ \A j \in 1..width : \A a \in 1..Len(column_possibilities[j]) :
              \A i \in 1..height :
                  board[i][j] # UNKNOWN => column_possibilities[j][a][i] = board[i][j]

\* a step has returned having removed a candidate from a row and kept another,
\* the board partly known
C20_Witness ==
    /\ pc = "top"
    /\ step_start.began
    /\ ~is_solved
    /\ Known(board) > 0
    /\ \E i \in 1..height :
          /\ row_possibilities[i] # <<>>
          /\ Len(row_possibilities[i]) < Len(step_start.rows[i])

=============================================================================
